---- MODULE Spec2Model ----
(***************************************************************************)
(* Model of lambda_function.py: the Amazon Connect metrics -> Slack        *)
(* notifier.  One invocation of lambda_handler is a run; its steps are the *)
(* actions below, and every external call (describe_queue,                 *)
(* get_metric_data_v2, the webhook POST) is an input chosen by \E.         *)
(*                                                                         *)
(* Numbers.  Every metric value is held in hundredths (15.0 is 1500), so   *)
(* that Python's round(x, 2) is a rounding to the nearest integer.         *)
(* Observations are whole numbers (multiples of 100); with fewer than 8    *)
(* observations per response, or with a power-of-two count, the quotient   *)
(* that round() sees is either not a tie or an exactly representable tie,  *)
(* so round-half-even on the exact quotient is what CPython computes.      *)
(* service_level_count is the one summary field held in units (round(x)    *)
(* makes it an integer).                                                   *)
(***************************************************************************)
EXTENDS Integers, Sequences, FiniteSets, TLC

VARIABLES
    event,        \* the invocation event: connect_arn, queues, webhook
    pc,           \* position of lambda_handler
    results,      \* the results store: key -> sequence of {name: value} records
    metricIdx,    \* index into metrics_to_collect of the next metric
    summary,      \* the value returned by calculate_summary
    message,      \* the message built by send_slack_notification
    status,       \* statusCode of the returned dict (0 while running)
    describeCalls,\* log: number of describe_queue calls made
    requested,    \* log: metric names passed to get_metric_data_v2, in order
    outcomes,     \* log: per requested metric, "fail", "empty" or "data"
    refTotal,     \* log: per requested metric, the reference reduction of its response
    posts,        \* log: number of urlopen (POST) attempts
    postResult,   \* log: "none", "ok" or "fail"
    arg,          \* argument of the function under test (function specifications)
    ret           \* its return value

vars == <<event, pc, results, metricIdx, summary, message, status, describeCalls,
          requested, outcomes, refTotal, posts, postResult, arg, ret>>

----------------------------------------------------------------------------
(* Bounds *)

MaxQueues == 2
MaxGroups == 2
MaxObs == 2
MaxTotalLen == 4

----------------------------------------------------------------------------
(* Values the inputs are drawn from *)

AllQueueIds == <<"Q1", "Q2", "Q3", "Q4">>

QueueList(n) == [i \in 1..n |-> AllQueueIds[i]]

\* None is Python's None (event.get of an absent key)
None == "None"

ArnValues == {None, "", "arn-without-slash", "arn:aws:connect:instance/abc"}

WebhookValues == {None, "", "not-a-url", "https://hooks.example/T"}

\* queues: absent from the event (given = FALSE) or a list of queue ids
QueuesValues ==
    {[given |-> FALSE, ids |-> <<>>]} \cup
    {[given |-> TRUE, ids |-> QueueList(n)] : n \in 0..MaxQueues}

\* observations of the end-to-end runs: 0 and 1
PipeVals == {0, 100}

\* observations of the reducer on its own: 0, 10 and 20
ReduceVals == {0, 1000, 2000}

\* values of the records given to calculate_summary on its own: 0, 50 and 90
SummaryVals == {0, 5000, 9000}

SeqsUpTo(S, n) == UNION {[1..k -> S] : k \in 0..n}

\* one group per queue at most (Groupings=['QUEUE']), one observation per group
\* at most (one metric per request)
PipeMetricResults == SeqsUpTo({<<>>} \cup {<<v>> : v \in PipeVals}, MaxQueues)

ReduceMetricResults == SeqsUpTo(SeqsUpTo(ReduceVals, MaxObs), MaxGroups)

\* What get_metric_data_v2 does: it returns a dict with MetricResults (a list
\* of groups, each the list of its Collections values), it raises, or it
\* returns something that is not a dict.
Response(mr) == [kind |-> "dict", MetricResults |-> mr]
CallRaises == [kind |-> "raises", MetricResults |-> <<>>]
Malformed == [kind |-> "malformed", MetricResults |-> <<>>]

PipeResponses == {Response(mr) : mr \in PipeMetricResults} \cup {CallRaises, Malformed}

----------------------------------------------------------------------------
(* Arithmetic *)

\* round(n / d) for n >= 0, d > 0, ties to even (Python 3 round)
RoundHalfEven(n, d) ==
    LET q == n \div d
        r == n % d
    IN  IF 2 * r < d THEN q
        ELSE IF 2 * r > d THEN q + 1
        ELSE IF q % 2 = 0 THEN q ELSE q + 1

Rec(name, value) == [key |-> name, value |-> value]

metrics_to_collect ==
    <<"CONTACTS_CREATED", "CONTACTS_HANDLED", "AVG_QUEUE_ANSWER_TIME", "SERVICE_LEVEL">>

MetricNames == {metrics_to_collect[i] : i \in DOMAIN metrics_to_collect}

----------------------------------------------------------------------------
(* The functions of the program *)

\* a validation that forgets the webhook
MissingParams_NoWebhook(e) == e.connect_arn \in {None, ""} \/ ~e.queues.given \/ e.queues.ids = <<>>

\* event validation: "not connect_arn or not queues or not slack_webhook_url"
Falsy(v) == v = None \/ v = ""

FalsyList(q) == ~q.given \/ q.ids = <<>>

MissingParams(e) == Falsy(e.connect_arn) \/ FalsyList(e.queues) \/ Falsy(e.webhook)

\* connect_arn.split('/')[1] raises IndexError when the ARN has no '/'
SplitRaises(connect_arn) == connect_arn = "arn-without-slash"

initialize_results(queues) ==
    [k \in {queues[i] : i \in DOMAIN queues} \cup {"total"} |-> <<>>]

\* names[q] is what describe_queue gives for q: "ok" (a Queue with a Name),
\* "noname" (no Name in the response) or "raise"
QueueNameOf(q, answer) ==
    IF answer = "ok" THEN "Name of " \o q
    ELSE IF answer = "noname" THEN "Unknown"
    ELSE "Error"

get_queue_names(queues, res, names) ==
    [k \in DOMAIN res |->
        IF k \in {queues[i] : i \in DOMAIN queues}
        THEN Append(res[k], Rec("QUEUE_NAME", QueueNameOf(k, names[k])))
        ELSE res[k]]

\* an empty response that zero-fills the queues and forgets 'total'
EmptyZeroFill_QueuesOnly(res, metric_name) ==
    [k \in DOMAIN res |->
        IF k = "total" THEN res[k] ELSE Append(res[k], [key |-> metric_name, value |-> 0])]

\* lines 212-218: the response has no MetricResults
EmptyZeroFill(res, metric_name) ==
    [k \in DOMAIN res |-> Append(res[k], Rec(metric_name, 0))]

\* an except branch that zero-fills the queues and forgets 'total'
ExceptZeroFill_QueuesOnly(res, metric_name) ==
    [k \in DOMAIN res |->
        IF k = "total" THEN res[k] ELSE Append(res[k], [key |-> metric_name, value |-> 0])]

\* lines 190-196: the except branch of collect_metric
ExceptZeroFill(res, metric_name) ==
    [k \in DOMAIN res |-> Append(res[k], Rec(metric_name, 0))]

\* lines 225-230: the inner loop over one group's Collections
RECURSIVE FoldCollections(_, _)
FoldCollections(collections, acc) ==
    IF collections = <<>> THEN acc
    ELSE FoldCollections(Tail(collections),
            [total_value |-> acc.total_value + Head(collections),
             total_count |-> acc.total_count + 1])

\* a loop that resets the accumulators for every group
FoldMetricResults_Reset(metric_results, acc) ==
    IF metric_results = <<>> THEN acc
    ELSE FoldCollections(metric_results[Len(metric_results)],
                         [total_value |-> 0, total_count |-> 0])

\* lines 221-230: the loop over MetricResults.  The loop also reads each
\* group's Dimensions.QUEUE and sums a per-group value, and uses neither.
RECURSIVE FoldMetricResults(_, _)
FoldMetricResults(metric_results, acc) ==
    IF metric_results = <<>> THEN acc
    ELSE FoldMetricResults(Tail(metric_results),
            FoldCollections(Head(metric_results), acc))

IsAverageMetric(metric_name) ==
    metric_name = "AVG_QUEUE_ANSWER_TIME" \/ metric_name = "SERVICE_LEVEL"

\* a reduction that averages the counts as well
TotalOf_AlwaysAverage(metric_name, acc) ==
    IF acc.total_count > 0 THEN RoundHalfEven(acc.total_value, acc.total_count) ELSE 0

\* lines 232-236
TotalOf(metric_name, acc) ==
    IF IsAverageMetric(metric_name)
    THEN IF acc.total_count > 0
         THEN RoundHalfEven(acc.total_value, acc.total_count)
         ELSE 0
    ELSE acc.total_value

\* process_metric_results: [raised, results].  A response that is not a dict
\* raises at response.get, before the store is touched.
process_metric_results(response, metric_name, res) ==
    IF response.kind = "malformed" THEN [raised |-> TRUE, results |-> res]
    ELSE IF response.MetricResults = <<>>
    THEN [raised |-> FALSE, results |-> EmptyZeroFill(res, metric_name)]
    ELSE LET acc == FoldMetricResults(response.MetricResults,
                                      [total_value |-> 0, total_count |-> 0])
         IN  [raised |-> FALSE,
              results |-> [res EXCEPT !["total"] =
                              Append(@, Rec(metric_name, TotalOf(metric_name, acc)))]]

\* collect_metric after the request was built: the call, the reduction, the except
collect_metric(response, metric_name, res) ==
    IF response.kind = "raises" THEN ExceptZeroFill(res, metric_name)
    ELSE LET r == process_metric_results(response, metric_name, res)
         IN  IF r.raised THEN ExceptZeroFill(r.results, metric_name) ELSE r.results

\* lines 255-264: one step of the scan.  slc is contacts_created * service_level,
\* in hundredths of hundredths; the division by 100 is done in Summarize.
ScanItem(item, s) ==
    IF item.key = "CONTACTS_CREATED" THEN [s EXCEPT !.contacts_created = item.value]
    ELSE IF item.key = "CONTACTS_HANDLED" THEN [s EXCEPT !.contacts_handled = item.value]
    ELSE IF item.key = "AVG_QUEUE_ANSWER_TIME"
    THEN [s EXCEPT !.avg_queue_answer_time = item.value]
    ELSE IF item.key = "SERVICE_LEVEL"
    THEN [s EXCEPT !.service_level = item.value,
                   !.slc = s.contacts_created * item.value]
    ELSE s

RECURSIVE Scan(_, _)
Scan(total_info, s) ==
    IF total_info = <<>> THEN s ELSE Scan(Tail(total_info), ScanItem(Head(total_info), s))

ScanStart ==
    [contacts_created |-> 0, contacts_handled |-> 0, avg_queue_answer_time |-> 0,
     service_level |-> 0, slc |-> 0]

\* lines 266-286
Summarize(s) ==
    [answer_rate |->
        IF s.contacts_created > 0
        THEN RoundHalfEven(s.contacts_handled * 10000, s.contacts_created)
        ELSE 0,
     service_level |-> RoundHalfEven(s.service_level, 1),
     service_level_count |-> RoundHalfEven(s.slc, 1000000),
     avg_queue_answer_time |-> RoundHalfEven(s.avg_queue_answer_time, 1),
     contacts_created |-> s.contacts_created,
     contacts_handled |-> s.contacts_handled]

calculate_summary(res) ==
    Summarize(Scan(IF "total" \in DOMAIN res THEN res["total"] ELSE <<>>, ScanStart))

\* a zero-activity test that looks at the answer rate only
ZeroActivity_AnswerRateOnly(s) == s.answer_rate = 0

\* line 298
ZeroActivity(s) ==
    s.answer_rate = 0 /\ s.service_level = 0 /\ s.avg_queue_answer_time = 0

\* lines 297-304: the message, as its variant and its lines.  int() truncates.
\* The HH:MM bounds of the window open both variants and are left out.
FormatMessage(s) ==
    IF ZeroActivity(s)
    THEN [variant |-> "zero", lines |-> <<>>]
    ELSE [variant |-> "detail",
          lines |-> << <<"answer", s.contacts_handled \div 100,
                          s.contacts_created \div 100, s.answer_rate>>,
                       <<"SVL", s.service_level_count,
                          s.contacts_created \div 100, s.service_level>>,
                       <<"ASA", s.avg_queue_answer_time>> >>]

\* urllib.request.Request raises ValueError on a URL without a scheme
WellFormedUrl(url) == url = "https://hooks.example/T"

\* a delivery that posts again when the first POST failed
PostAttempts_Retry(delivered) == IF delivered THEN 1 ELSE 2

\* lines 308-321: urlopen is called once; its exception is logged and re-raised
PostAttempts(delivered) == 1

\* lines 67-77: the dict lambda_handler returns
StatusCode(raised) == IF raised THEN 500 ELSE 200

----------------------------------------------------------------------------
(* The reduction as section 4.4 of the specification states it *)

RECURSIVE Flatten(_)
Flatten(groups) ==
    IF groups = <<>> THEN <<>> ELSE Head(groups) \o Flatten(Tail(groups))

RECURSIVE SumSeq(_)
SumSeq(s) ==
    IF Len(s) = 0 THEN 0 ELSE s[Len(s)] + SumSeq(SubSeq(s, 1, Len(s) - 1))

\* n / d to the nearest integer, an exact half to the even neighbour
Nearest(n, d) ==
    LET k == (2 * n + d) \div (2 * d)
    IN  IF (2 * n + d) % (2 * d) = 0 /\ k % 2 = 1 THEN k - 1 ELSE k

RefReduce(metric_name, groups) ==
    LET obs == Flatten(groups)
    IN  IF metric_name \in {"CONTACTS_CREATED", "CONTACTS_HANDLED"} THEN SumSeq(obs)
        ELSE IF Len(obs) = 0 THEN 0
        ELSE Nearest(SumSeq(obs), Len(obs))

OutcomeOf(response) ==
    IF response.kind # "dict" THEN "fail"
    ELSE IF response.MetricResults = <<>> THEN "empty"
    ELSE "data"

----------------------------------------------------------------------------
(* One run of lambda_handler *)

NoSummary == Summarize(ScanStart)
NoMessage == [variant |-> "none", lines |-> <<>>]
NoArg == [metric_name |-> "none", response |-> Response(<<>>)]

Init ==
    /\ event \in [connect_arn : ArnValues, queues : QueuesValues, webhook : WebhookValues]
    /\ pc = "start"
    /\ results = [k \in {} |-> <<>>]
    /\ metricIdx = 1
    /\ summary = NoSummary
    /\ message = NoMessage
    /\ status = 0
    /\ describeCalls = 0
    /\ requested = <<>>
    /\ outcomes = <<>>
    /\ refTotal = <<>>
    /\ posts = 0
    /\ postResult = "none"
    /\ arg = NoArg
    /\ ret = FALSE

\* lines 22-45: validation, client, time range, instance id, initialize_results
Validate ==
    /\ pc = "start"
    /\ IF MissingParams(event) \/ SplitRaises(event.connect_arn)
       THEN /\ pc' = "done"
            /\ status' = StatusCode(TRUE)
            /\ UNCHANGED results
       ELSE /\ pc' = "names"
            /\ results' = initialize_results(event.queues.ids)
            /\ UNCHANGED status
    /\ UNCHANGED <<event, metricIdx, summary, message, describeCalls, requested,
                   outcomes, refTotal, posts, postResult, arg, ret>>

\* line 48: get_queue_names, one describe_queue call per queue
GetQueueNames ==
    /\ pc = "names"
    /\ \E names \in [{event.queues.ids[i] : i \in DOMAIN event.queues.ids} ->
                        {"ok", "noname", "raise"}] :
          results' = get_queue_names(event.queues.ids, results, names)
    /\ describeCalls' = describeCalls + Len(event.queues.ids)
    /\ pc' = "metrics"
    /\ UNCHANGED <<event, metricIdx, summary, message, status, requested, outcomes,
                   refTotal, posts, postResult, arg, ret>>

\* lines 58-59: one iteration of the loop over metrics_to_collect
CollectMetric ==
    /\ pc = "metrics"
    /\ \E response \in PipeResponses :
          LET metric_name == metrics_to_collect[metricIdx]
          IN  /\ results' = collect_metric(response, metric_name, results)
              /\ requested' = Append(requested, metric_name)
              /\ outcomes' = Append(outcomes, OutcomeOf(response))
              /\ refTotal' = Append(refTotal,
                                IF response.kind = "dict"
                                THEN RefReduce(metric_name, response.MetricResults)
                                ELSE -1)
    /\ metricIdx' = metricIdx + 1
    /\ pc' = IF metricIdx = Len(metrics_to_collect) THEN "summary" ELSE "metrics"
    /\ UNCHANGED <<event, summary, message, status, describeCalls, posts, postResult,
                   arg, ret>>

\* line 62
CalculateSummary ==
    /\ pc = "summary"
    /\ summary' = calculate_summary(results)
    /\ pc' = "notify"
    /\ UNCHANGED <<event, results, metricIdx, message, status, describeCalls, requested,
                   outcomes, refTotal, posts, postResult, arg, ret>>

\* lines 65-77: send_slack_notification and the return of lambda_handler
SendSlackNotification ==
    /\ pc = "notify"
    /\ message' = FormatMessage(summary)
    /\ IF WellFormedUrl(event.webhook)
       THEN \E delivered \in BOOLEAN :
               /\ posts' = posts + PostAttempts(delivered)
               /\ postResult' = IF delivered THEN "ok" ELSE "fail"
               /\ status' = StatusCode(~delivered)
       ELSE /\ status' = StatusCode(TRUE)
            /\ UNCHANGED <<posts, postResult>>
    /\ pc' = "done"
    /\ UNCHANGED <<event, results, metricIdx, summary, describeCalls, requested,
                   outcomes, refTotal, arg, ret>>

Next ==
    \/ Validate
    \/ GetQueueNames
    \/ CollectMetric
    \/ CalculateSummary
    \/ SendSlackNotification

Spec == Init /\ [][Next]_vars

----------------------------------------------------------------------------
(* process_metric_results on its own: one call on a store whose queue      *)
(* names are in, for every metric name and every response within bounds    *)

AllNamed(n) == [k \in {AllQueueIds[i] : i \in 1..n} |-> "ok"]

InitReduce ==
    /\ arg \in [metric_name : MetricNames,
                response : {Response(mr) : mr \in ReduceMetricResults} \cup {Malformed}]
    /\ pc = "reduce"
    /\ results = get_queue_names(QueueList(MaxQueues),
                                 initialize_results(QueueList(MaxQueues)),
                                 AllNamed(MaxQueues))
    /\ event = [connect_arn |-> "arn:aws:connect:instance/abc",
                queues |-> [given |-> TRUE, ids |-> QueueList(MaxQueues)],
                webhook |-> "https://hooks.example/T"]
    /\ metricIdx = 1
    /\ summary = NoSummary
    /\ message = NoMessage
    /\ status = 0
    /\ describeCalls = MaxQueues
    /\ requested = <<>>
    /\ outcomes = <<>>
    /\ refTotal = <<>>
    /\ posts = 0
    /\ postResult = "none"
    /\ ret = FALSE

\* line 188: process_metric_results(response, metric_name, results)
ProcessMetricResults ==
    /\ pc = "reduce"
    /\ LET r == process_metric_results(arg.response, arg.metric_name, results)
       IN  /\ results' = r.results
           /\ ret' = r.raised
    /\ pc' = "reduced"
    /\ UNCHANGED <<event, metricIdx, summary, message, status, describeCalls, requested,
                   outcomes, refTotal, posts, postResult, arg>>

NextReduce == ProcessMetricResults

SpecReduce == InitReduce /\ [][NextReduce]_vars

----------------------------------------------------------------------------
(* calculate_summary on its own: one call on a store whose 'total' entry   *)
(* is any sequence of metric records within bounds, or is missing          *)

TotalRecords == {Rec(k, v) : k \in MetricNames, v \in SummaryVals}

InitSummary ==
    /\ \/ \E total \in SeqsUpTo(TotalRecords, MaxTotalLen) :
             results = [k \in {"total"} |-> total]
       \/ results = [k \in {"Q1"} |-> <<>>]
    /\ pc = "summary"
    /\ event = [connect_arn |-> "arn:aws:connect:instance/abc",
                queues |-> [given |-> TRUE, ids |-> QueueList(1)],
                webhook |-> "https://hooks.example/T"]
    /\ metricIdx = 1
    /\ summary = NoSummary
    /\ message = NoMessage
    /\ status = 0
    /\ describeCalls = 0
    /\ requested = <<>>
    /\ outcomes = <<>>
    /\ refTotal = <<>>
    /\ posts = 0
    /\ postResult = "none"
    /\ arg = NoArg
    /\ ret = FALSE

NextSummary == CalculateSummary

SpecSummary == InitSummary /\ [][NextSummary]_vars

----------------------------------------------------------------------------
(* Claims *)

\* metric collection has finished in a validated run
Collected == pc \in {"summary", "notify"} \/ (pc = "done" /\ describeCalls > 0)

QueueKeys == DOMAIN results \ {"total"}

AllEmpty == outcomes = <<"empty", "empty", "empty", "empty">>

\* C1: a failing metric call, or a failure while reducing its response, does
\* not abort the run: the metrics are requested in order and all four of them,
\* a failed metric has the value 0 in 'total' and in every queue entry, every
\* other metric has the value of the reference reduction of its response, and
\* a run whose POST succeeded returns 200.
C1_FailedMetricZeroFilled ==
    /\ requested = SubSeq(metrics_to_collect, 1, Len(requested))
    /\ Len(outcomes) = Len(requested)
    /\ Collected => requested = metrics_to_collect
    /\ describeCalls > 0 =>
          /\ Len(results["total"]) = Len(requested)
          /\ \A i \in 1..Len(requested) :
                IF outcomes[i] = "fail"
                THEN /\ results["total"][i].key = requested[i]
                     /\ results["total"][i].value = 0
                     /\ \A q \in QueueKeys :
                           \E j \in DOMAIN results[q] :
                              /\ results[q][j].key = requested[i]
                              /\ results[q][j].value = 0
                ELSE /\ results["total"][i].key = requested[i]
                     /\ results["total"][i].value = refTotal[i]
    /\ (pc = "done" /\ postResult = "ok") => status = 200

C1_Witness ==
    /\ pc = "done"
    /\ status = 200
    /\ Len(outcomes) = 4
    /\ outcomes[1] = "data"
    /\ outcomes[2] = "fail"
    /\ outcomes[4] = "data"
    /\ results["total"][1].value > 0
    /\ results["total"][4].value > 0

C2_Missing ==
    \/ event.connect_arn \in {None, ""}
    \/ ~event.queues.given
    \/ Len(event.queues.ids) = 0
    \/ event.webhook \in {None, ""}

\* C2: when connect_arn, queues or webhook is absent or empty, the run makes
\* no describe_queue call, no metric request and no POST, at any point, and
\* it ends with statusCode 500.
C2_MissingParamFailsFast ==
    C2_Missing =>
        /\ describeCalls = 0
        /\ requested = <<>>
        /\ posts = 0
        /\ pc \in {"start", "done"}
        /\ pc = "done" => status = 500

C2_Witness ==
    /\ pc = "done"
    /\ status = 500
    /\ event.connect_arn = "arn:aws:connect:instance/abc"
    /\ Len(event.queues.ids) = 2
    /\ event.webhook = None

\* C3: after collection, 'total' holds exactly one record per metric, in the
\* collection order, every value is non-negative, and a metric whose response
\* had no groups has the value 0.
C3_TotalOneRecordPerMetric ==
    Collected =>
        /\ Len(results["total"]) = Len(metrics_to_collect)
        /\ \A i \in 1..Len(results["total"]) :
              /\ i <= Len(metrics_to_collect) => results["total"][i].key = metrics_to_collect[i]
              /\ results["total"][i].value >= 0
              /\ (i <= Len(outcomes) /\ outcomes[i] = "empty") => results["total"][i].value = 0

C3_Witness ==
    /\ pc = "done"
    /\ outcomes = <<"data", "empty", "fail", "data">>
    /\ results["total"][1].value > 0
    /\ results["total"][2].value = 0

\* C4: at most one POST is attempted, none before the four metrics are
\* collected and the summary computed, and a failed POST is not retried and
\* makes the run return 500.
C4_AtMostOnePost ==
    /\ posts <= 1
    /\ pc # "done" => (posts = 0 /\ postResult = "none")
    /\ posts = 1 =>
          /\ requested = metrics_to_collect
          /\ Len(results["total"]) = Len(metrics_to_collect)
          /\ summary = calculate_summary(results)
          /\ postResult \in {"ok", "fail"}
    /\ postResult = "fail" => (posts = 1 /\ status = 500)
    /\ (pc = "done" /\ posts = 0) => status = 500

C4_Witness == pc = "done" /\ postResult = "fail" /\ posts = 1 /\ status = 500

\* C5: after collection, every queue entry holds a QUEUE_NAME record followed
\* by exactly one record per collected metric, so one record more than 'total'.
C5_QueueEntriesConsistent ==
    Collected =>
        \A q \in QueueKeys :
            /\ Len(results[q]) = Len(results["total"]) + 1
            /\ results[q][1].key = "QUEUE_NAME"
            /\ \A i \in 1..Len(metrics_to_collect) :
                  i + 1 <= Len(results[q]) => results[q][i + 1].key = metrics_to_collect[i]

Reduced == pc = "reduced" /\ arg.response.kind = "dict" /\ arg.response.MetricResults # <<>>

\* C6: for a response with at least one group, process_metric_results appends
\* to 'total' one record whose value is the reference reduction: the sum of
\* all observations for the two counts, the sum over the number of
\* observations rounded to 2 decimals for the two averages, 0 when there is
\* no observation; groups (10) and (20) reduce to 15.0.
C6_TotalIsReferenceReduction ==
    Reduced =>
        /\ ~ret
        /\ Len(results["total"]) = 1
        /\ results["total"][1].key = arg.metric_name
        /\ results["total"][1].value = RefReduce(arg.metric_name, arg.response.MetricResults)
        /\ (IsAverageMetric(arg.metric_name) /\ Flatten(arg.response.MetricResults) = <<>>)
              => results["total"][1].value = 0
        /\ (IsAverageMetric(arg.metric_name)
              /\ arg.response.MetricResults = << <<1000>>, <<2000>> >>)
              => results["total"][1].value = 1500

C6_Witness ==
    /\ Reduced
    /\ arg.metric_name = "SERVICE_LEVEL"
    /\ arg.response.MetricResults = << <<1000>>, <<2000>> >>
    /\ results["total"][1].value = 1500

RECURSIVE ProdLen(_)
ProdLen(groups) ==
    IF groups = <<>> THEN 1 ELSE Len(Head(groups)) * ProdLen(Tail(groups))

RECURSIVE SumOfMeans(_, _)
SumOfMeans(groups, d) ==
    IF groups = <<>> THEN 0
    ELSE SumSeq(Head(groups)) * (d \div Len(Head(groups))) + SumOfMeans(Tail(groups), d)

\* the mean over the groups of each group's mean, rounded to 2 decimals
\* (every group has an observation)
MeanOfGroupMeans(groups) ==
    LET d == ProdLen(groups)
    IN  Nearest(SumOfMeans(groups, d), d * Len(groups))

EveryGroupObserved(groups) == \A g \in DOMAIN groups : Len(groups[g]) >= 1

SameGroupSize(groups) == \A g, h \in DOMAIN groups : Len(groups[g]) = Len(groups[h])

\* C7 as stated: for the two averages and a response whose groups each carry
\* one or more observations, the value in 'total' is the mean over the groups
\* of each group's own mean.
C7_MeanOfGroupMeans ==
    (Reduced /\ IsAverageMetric(arg.metric_name)
        /\ EveryGroupObserved(arg.response.MetricResults))
    => results["total"][1].value = MeanOfGroupMeans(arg.response.MetricResults)

\* C7 as amended: the same, for a response whose groups all carry the same
\* number (one or more) of observations.
C7_MeanOfGroupMeansSameSize ==
    (Reduced /\ IsAverageMetric(arg.metric_name)
        /\ EveryGroupObserved(arg.response.MetricResults)
        /\ SameGroupSize(arg.response.MetricResults))
    => results["total"][1].value = MeanOfGroupMeans(arg.response.MetricResults)

C7_Witness ==
    /\ Reduced
    /\ arg.metric_name = "AVG_QUEUE_ANSWER_TIME"
    /\ arg.response.MetricResults = << <<1000, 2000>>, <<2000, 2000>> >>
    /\ results["total"][1].value = 1750

Occurrences(total, name) == {i \in DOMAIN total : total[i].key = name}

LastOf(total, name) ==
    LET occ == Occurrences(total, name)
    IN  IF occ = {} THEN 0
        ELSE total[CHOOSE i \in occ : \A j \in occ : j <= i].value

\* C8: for any sequence of metric records in 'total', every extracted metric
\* is the value of its last occurrence (0 if none), service_level_count is
\* round(contacts_created * service_level / 100) of those values when a
\* SERVICE_LEVEL record was seen and 0 otherwise, and contacts_created = 0
\* gives answer_rate = 0 and service_level_count = 0.
C8_SummaryFromLastOccurrences ==
    (pc = "notify" /\ "total" \in DOMAIN results) =>
        LET total == results["total"]
            cc == LastOf(total, "CONTACTS_CREATED")
            sl == LastOf(total, "SERVICE_LEVEL")
        IN  /\ summary.contacts_created = cc
            /\ summary.contacts_handled = LastOf(total, "CONTACTS_HANDLED")
            /\ summary.avg_queue_answer_time = LastOf(total, "AVG_QUEUE_ANSWER_TIME")
            /\ summary.service_level = sl
            /\ summary.service_level_count =
                  IF Occurrences(total, "SERVICE_LEVEL") # {}
                  THEN Nearest(cc * sl, 1000000)
                  ELSE 0
            /\ cc = 0 => (summary.answer_rate = 0 /\ summary.service_level_count = 0)
            /\ (cc = 5000 /\ sl = 9000) => summary.service_level_count = 45

SummaryAllZero ==
    /\ summary.answer_rate = 0
    /\ summary.service_level = 0
    /\ summary.service_level_count = 0
    /\ summary.avg_queue_answer_time = 0
    /\ summary.contacts_created = 0
    /\ summary.contacts_handled = 0

\* C9: when all four responses are empty the summary is all zero and the
\* message is the zero-activity variant, with no answer-rate, SVL or ASA line;
\* and any message is the zero-activity variant exactly when answer_rate,
\* service_level and avg_queue_answer_time are all 0.
C9_AllEmptyIsZeroActivity ==
    /\ (pc \in {"notify", "done"} /\ describeCalls > 0 /\ AllEmpty) => SummaryAllZero
    /\ (pc = "done" /\ describeCalls > 0 /\ AllEmpty) => message.variant = "zero"
    /\ (pc = "done" /\ describeCalls > 0) => message.variant \in {"zero", "detail"}
    /\ message.variant = "zero" => message.lines = <<>>
    /\ message.variant = "detail" => Len(message.lines) = 3
    /\ message.variant # "none" =>
          (message.variant = "zero" <=>
              (summary.answer_rate = 0 /\ summary.service_level = 0
                  /\ summary.avg_queue_answer_time = 0))

C9_Witness ==
    /\ pc = "done"
    /\ AllEmpty
    /\ Len(event.queues.ids) = 2
    /\ SummaryAllZero
    /\ message.variant = "zero"
    /\ status = 200

\* C10: the zero-activity message is sent only when the window had no
\* contact: when it is emitted, the contacts_created value reduced from the
\* response is 0.
C10_ZeroActivityOnlyWithoutContacts ==
    (message.variant = "zero" /\ Len(outcomes) >= 1 /\ outcomes[1] # "fail")
    => refTotal[1] = 0

====
